---- MODULE Spec2Model ----
(***************************************************************************)
(* Row-justified packer of the collage application.                        *)
(*                                                                         *)
(* The model follows src/src/utils/packing.js (packItemsTight and its      *)
(* inner finalizeRow), the function the application imports.  One call of  *)
(* packItemsTight is unfolded into one action per loop iteration and one   *)
(* action for the trailing-row flush, so that the open row buffer is       *)
(* observable between iterations.                                          *)
(*                                                                         *)
(* JavaScript numbers are modelled bit for bit as IEEE 754 binary64 values  *)
(* (53-bit significand, round to nearest, ties to even), since the packer  *)
(* floors products of quotients; the values are positive and far from the  *)
(* overflow and subnormal ranges.                                          *)
(***************************************************************************)
EXTENDS Integers, Sequences, FiniteSets, TLC

\* ------------------------------------------------------------------ bounds

\* Longest input list packed.
MaxItems == 3

\* The requests the application sends in one run.
MaxRequests == 2

\* ------------------------------------------- JavaScript numbers (binary64)

\* Radix of the limbs of a natural number: 2^15, so that a product of two
\* limbs plus carries stays below 2^31.
Base == 32768

\* 2^0 .. 2^15
PowersOfTwo ==
    <<1, 2, 4, 8, 16, 32, 64, 128, 256, 512, 1024, 2048, 4096, 8192, 16384, 32768>>

\* 2^n for 0 <= n <= 15
Pow2(n) == PowersOfTwo[n + 1]

\* The number of bits of one limb.
IntBitLen(n) == Cardinality({k \in 1..15 : PowersOfTwo[k] <= n})

\* A natural number of any size is the sequence of its limbs, lowest first,
\* with no zero limb at the top; <<>> is 0.
BTrim(a) ==
    LET used == {i \in DOMAIN a : a[i] # 0}
    IN  IF used = {} THEN <<>>
        ELSE SubSeq(a, 1, CHOOSE i \in used : \A j \in used : j <= i)

Limb(a, i) == IF i \in DOMAIN a THEN a[i] ELSE 0

\* A whole number 0 <= n < 2^31 as limbs, and back.
BFromInt(n) == BTrim(<<n % Base, (n \div Base) % Base, n \div (Base * Base)>>)

BToInt(a) == Limb(a, 1) + Base * Limb(a, 2) + Base * Base * Limb(a, 3)

\* -1, 0 or 1 as a < b, a = b or a > b.
BCmp(a, b) ==
    IF Len(a) < Len(b) THEN -1
    ELSE IF Len(a) > Len(b) THEN 1
    ELSE LET differ == {i \in DOMAIN a : a[i] # b[i]}
         IN  IF differ = {} THEN 0
             ELSE LET top == CHOOSE i \in differ : \A j \in differ : j <= i
                  IN  IF a[top] < b[top] THEN -1 ELSE 1

\* The number whose limbs, before carrying, are t[1] .. t[n], each below
\* 2 * Base: limb i receives a carry when a lower limb overflows and every
\* limb in between is full.
SumLimbs(t, n) ==
    LET s == SubSeq(t, 1, n)
        Carry(i) ==
            \E j \in 1..(i - 1) :
                s[j] >= Base /\ \A k \in (j + 1)..(i - 1) : s[k] = Base - 1
    IN  BTrim([i \in 1..n |-> (s[i] + (IF Carry(i) THEN 1 ELSE 0)) % Base])

\* a + b
BAdd(a, b) ==
    LET n == (IF Len(a) > Len(b) THEN Len(a) ELSE Len(b)) + 1
    IN  SumLimbs([i \in 1..n |-> Limb(a, i) + Limb(b, i)], n)

\* a - b for a >= b: limb i lends when a lower limb falls short and every limb
\* in between is empty.
BSub(a, b) ==
    LET D(i) == a[i] - Limb(b, i)
        Borrow(i) ==
            \E j \in 1..(i - 1) :
                D(j) < 0 /\ \A k \in (j + 1)..(i - 1) : D(k) = 0
    IN  BTrim([i \in DOMAIN a |-> (D(i) - (IF Borrow(i) THEN 1 ELSE 0) + Base) % Base])

\* a * k for one limb k: the low halves of the limb products plus their high
\* halves one limb up.
BMulSmall(a, k) ==
    SumLimbs([i \in 1..(Len(a) + 1) |->
                 ((Limb(a, i) * k) % Base) + ((Limb(a, i - 1) * k) \div Base)],
             Len(a) + 1)

\* a * 2^s
BShl(a, s) ==
    LET r == s % 15
    IN  IF a = <<>> THEN <<>>
        ELSE [i \in 1..(s \div 15) |-> 0]
             \o BTrim([i \in 1..(Len(a) + 1) |->
                          (Limb(a, i) % Pow2(15 - r)) * Pow2(r)
                          + (Limb(a, i - 1) \div Pow2(15 - r))])

\* floor(a / 2^s)
BShr(a, s) ==
    LET w == s \div 15
        r == s % 15
    IN  IF w >= Len(a) THEN <<>>
        ELSE BTrim([i \in 1..(Len(a) - w) |->
                       (a[i + w] \div Pow2(r))
                       + (Limb(a, i + w + 1) % Pow2(r)) * Pow2(15 - r)])

\* a * b for a and b of at most four limbs (two significands): column k of the
\* long multiplication holds the low halves of its limb products and the high
\* halves of the products of the column below.
BMul(a, b) ==
    LET P(i, k) == Limb(a, i) * Limb(b, k + 1 - i)
        Lo(k) == (P(1, k) % Base) + (P(2, k) % Base)
                 + (P(3, k) % Base) + (P(4, k) % Base)
        Hi(k) == (P(1, k) \div Base) + (P(2, k) \div Base)
                 + (P(3, k) \div Base) + (P(4, k) \div Base)
        V(k) == Lo(k) + Hi(k - 1)
    IN  SumLimbs([k \in 1..(Len(a) + Len(b) + 1) |->
                     (V(k) % Base) + (V(k - 1) \div Base)],
                 Len(a) + Len(b) + 1)

BBitLen(a) == IF a = <<>> THEN 0 ELSE 15 * (Len(a) - 1) + IntBitLen(a[Len(a)])

BOdd(a) == a # <<>> /\ a[1] % 2 = 1

\* One digit of a long division: the largest q with q * d <= r, for
\* r < d * Base and d with its top bit set, estimated from the top limbs.
RECURSIVE FixDigit(_, _, _)
FixDigit(q, r, d) ==
    IF BCmp(BMulSmall(d, q), r) > 0 THEN FixDigit(q - 1, r, d) ELSE q

QuotDigit(r, d) ==
    LET n == Len(d)
        est == (Limb(r, n + 1) * Base + Limb(r, n)) \div d[n]
    IN  FixDigit(IF est >= Base THEN Base - 1 ELSE est, r, d)

\* Long division of the limbs i and above of a by d: the digits of the
\* quotient, highest first, and the remainder.
RECURSIVE BDivModFrom(_, _, _)
BDivModFrom(a, d, i) ==
    IF i > Len(a) - Len(d) + 1
    THEN <<<<>>, BTrim(SubSeq(a, i, Len(a)))>>
    ELSE LET above == BDivModFrom(a, d, i + 1)
             r == BTrim(<<a[i]>> \o above[2])
             q == QuotDigit(r, d)
         IN  <<above[1] \o <<q>>, BSub(r, BMulSmall(d, q))>>

\* <<floor(a / d), a mod d>> for d with its top bit set.
BDivMod(a, d) ==
    IF BCmp(a, d) < 0 THEN <<<<>>, a>>
    ELSE LET qr == BDivModFrom(a, d, 1)
             n == Len(qr[1])
         IN  <<BTrim([i \in 1..n |-> qr[1][n + 1 - i]]), qr[2]>>

\* A number is 0 or m * 2^e with 2^52 <= m < 2^53 (a normal binary64 value,
\* m as limbs); the packer's numbers are never negative.
Zero == [m |-> <<>>, e |-> 0]

\* M * 2^e, plus a non-zero tail below its last bit when sticky, rounded to
\* 53 bits, to nearest, ties to even.
RoundNumber(M, e, sticky) ==
    IF M = <<>> THEN Zero
    ELSE LET L == BBitLen(M)
         IN  IF L <= 53
             THEN [m |-> BShl(M, 53 - L), e |-> e - (53 - L)]
             ELSE LET s == L - 53
                      twice == BShr(M, s - 1)
                      q == BShr(twice, 1)
                      tail == sticky \/ BShl(twice, s - 1) # M
                      r == IF BOdd(twice) /\ (tail \/ BOdd(q))
                           THEN BAdd(q, <<1>>) ELSE q
                  IN  IF BBitLen(r) > 53
                      THEN [m |-> BShr(r, 1), e |-> e + s + 1]
                      ELSE [m |-> r, e |-> e + s]

\* A whole number 0 <= n < 2^31 as a number.
Num(n) == RoundNumber(BFromInt(n), 0, FALSE)

\* a + b
NumAdd(a, b) ==
    IF a = Zero THEN b
    ELSE IF b = Zero THEN a
    ELSE LET e0 == IF a.e < b.e THEN a.e ELSE b.e
         IN  RoundNumber(BAdd(BShl(a.m, a.e - e0), BShl(b.m, b.e - e0)), e0, FALSE)

\* a * b
NumMul(a, b) ==
    IF a = Zero \/ b = Zero THEN Zero
    ELSE RoundNumber(BMul(a.m, b.m), a.e + b.e, FALSE)

\* a / b, b # 0
NumDiv(a, b) ==
    IF b # Zero /\ a = Zero THEN Zero
    ELSE LET qr == BDivMod(BShl(a.m, 67), BShl(b.m, 7))
         IN  RoundNumber(qr[1], a.e - b.e - 60, qr[2] # <<>>)

\* -1, 0 or 1 as a < b, a = b or a > b.
NumCmp(a, b) ==
    IF a = b THEN 0
    ELSE IF a = Zero THEN -1
    ELSE IF b = Zero THEN 1
    ELSE IF a.e # b.e THEN (IF a.e < b.e THEN -1 ELSE 1)
    ELSE BCmp(a.m, b.m)

NumLe(a, b) == NumCmp(a, b) <= 0
NumLt(a, b) == NumCmp(a, b) < 0

\* |a - b|
NumAbsDiff(a, b) ==
    IF NumLe(a, b)
    THEN (IF a = Zero THEN b
          ELSE RoundNumber(BSub(BShl(b.m, b.e - a.e), a.m), a.e, FALSE))
    ELSE (IF b = Zero THEN a
          ELSE RoundNumber(BSub(BShl(a.m, a.e - b.e), b.m), b.e, FALSE))

\* Math.floor(a), for a < 2^31
Floor(a) ==
    IF a = Zero THEN 0
    ELSE IF a.e >= 0 THEN BToInt(BShl(a.m, a.e))
    ELSE BToInt(BShr(a.m, -a.e))

\* ------------------------------------------------------------------ items

\* Container widths tried (window.innerWidth / canvasScale at the call sites,
\* a quotient that need not be a whole number): 1, 6 and 10.5.
WidthSet == {Num(1), Num(6), NumDiv(Num(21), Num(2))}

\* Target row heights tried (baseSize at the call sites).
TargetSet == {Num(3), Num(5)}

\* An absent (or zero) numeric field is 0: both are falsy for JavaScript's ||.
Absent == Zero

\* The fields of an item the packer reads: aspect_ratio (naturalWidth /
\* naturalHeight of the image when the application sets it), width, height.
ItemShapes ==
    { [aspect_ratio |-> NumDiv(Num(100), Num(100)), width |-> 100, height |-> 100],
      [aspect_ratio |-> NumDiv(Num(7), Num(5)),     width |-> 140, height |-> 100],
      [aspect_ratio |-> Absent,                     width |-> 150, height |-> 100] }

\* The items tried: every shape unpinned, and a pinned item of the first
\* shape (the packer does not read the pinned flag).
ItemKinds ==
    (ItemShapes \X {FALSE})
        \cup {<<shape, TRUE>> : shape \in {sh \in ItemShapes : sh.width = 100}}

\* An item of the list: its payload (id, pinned) and the geometry fields.
MkItem(i, shape, pin) ==
    [id |-> i, pinned |-> pin, aspect_ratio |-> shape.aspect_ratio,
     x |-> 0, y |-> 0, width |-> shape.width, height |-> shape.height]

\* All item lists of length n, ids 1..n in list order.
ItemLists(n) ==
    { [i \in 1..n |-> MkItem(i, f[i][1], f[i][2])] :
        f \in [1..n -> ItemKinds] }

VARIABLES
    itemList,         \* argument itemList
    containerWidth,   \* argument containerWidth
    targetRowHeight,  \* argument targetRowHeight
    packed,           \* const packed = []
    currentY,         \* let currentY = 0
    rowItems,         \* let rowItems = []
    rowAspectSum,     \* let rowAspectSum = 0
    idx,              \* position of `for (const item of itemList)`
    pc,               \* "loop", then "done" after the trailing flush
    rows,             \* history: one record per finalizeRow call that placed items
    appItems,         \* the application's state `items`
    collageSets,      \* the application's state `collageSets`
    collageId,        \* the application's state `collageId`
    kv,               \* env.COLLAGE_KV: collage_list and the collage:{id} records
    inflight,         \* requests sent to /api/collages, each with its position
    handler           \* the handler that is running packItemsTight, with its arguments

vars == <<itemList, containerWidth, targetRowHeight, packed, currentY,
          rowItems, rowAspectSum, idx, pc, rows,
          appItems, collageSets, collageId, kv, inflight, handler>>

\* The state of the application and of the server.
appVars == <<appItems, collageSets, collageId, kv, inflight, handler>>

\* An empty store: no collage_list, no collage:{id} record.
EmptyKV == [collage_list |-> <<>>, collage |-> <<>>]

\* No handler is running.
NoHandler == [name |-> "none", from |-> "none", save |-> FALSE]

\* A call of packItemsTight on its own, outside the application.
AppIdle ==
    /\ appItems = <<>>
    /\ collageSets = <<>>
    /\ collageId = "null"
    /\ kv = EmptyKV
    /\ inflight = <<>>
    /\ handler = NoHandler

\* -------------------------------------------------------- packItemsTight

\* Variant: the ratio taken from width and height even when aspect_ratio is set.
aspectRatioOf_fromSize(item) ==
    NumDiv(Num(IF item.width # 0 THEN item.width ELSE 100),
           Num(IF item.height # 0 THEN item.height ELSE 100))

\* item.aspect_ratio || ((item.width || 100) / (item.height || 100))
aspectRatioOf(item) ==
    IF item.aspect_ratio # Zero
    THEN item.aspect_ratio
    ELSE NumDiv(Num(IF item.width # 0 THEN item.width ELSE 100),
                Num(IF item.height # 0 THEN item.height ELSE 100))

\* The literal 1.5
OneAndAHalf == NumDiv(Num(3), Num(2))

\* Variant: the last row always at targetRowHeight.
rowHeightOf_lastAtTarget(W, T, aspectSum, isLastRow) ==
    IF isLastRow THEN T ELSE NumDiv(W, aspectSum)

\* let rowHeight = containerWidth / aspectSum, capped for a tall last row
rowHeightOf(W, T, aspectSum, isLastRow) ==
    LET h == NumDiv(W, aspectSum)
    IN  IF isLastRow /\ NumLt(NumMul(T, OneAndAHalf), h) THEN T ELSE h

\* Variant: Math.round in place of Math.floor.
itemWidthOf_round(rowHeight, aspectRatio) ==
    Floor(NumAdd(NumMul(rowHeight, aspectRatio), NumDiv(Num(1), Num(2))))

\* Variant: the row height floored before it is multiplied.
itemWidthOf_flooredHeight(rowHeight, aspectRatio) ==
    Floor(NumMul(Num(Floor(rowHeight)), aspectRatio))

\* const itemWidth = Math.floor(rowHeight * aspectRatio)
itemWidthOf(rowHeight, aspectRatio) == Floor(NumMul(rowHeight, aspectRatio))

\* Variant: Math.ceil in place of Math.floor.
itemHeightOf_ceil(rowHeight) ==
    IF Num(Floor(rowHeight)) = rowHeight THEN Floor(rowHeight) ELSE Floor(rowHeight) + 1

\* const itemHeight = Math.floor(rowHeight)
itemHeightOf(rowHeight) == Floor(rowHeight)

\* Variant: a one-pixel gutter left between the items.
nextX_gutter(x, itemWidth) == x + itemWidth + 1

\* x += itemWidth
nextX(x, itemWidth) == x + itemWidth

\* The body of finalizeRow's loop over the row, from item k on, x being the
\* running offset: the records pushed onto packed.
RECURSIVE placeFrom(_, _, _, _, _)
placeFrom(items, k, rowHeight, x, y) ==
    IF k > Len(items) THEN <<>>
    ELSE LET item == items[k]
             aspectRatio == aspectRatioOf(item)
             itemWidth == itemWidthOf(rowHeight, aspectRatio)
             itemHeight == itemHeightOf(rowHeight)
             placed == [item EXCEPT !.x = x, !.y = y,
                                    !.width = itemWidth, !.height = itemHeight]
         IN  <<placed>> \o placeFrom(items, k + 1, rowHeight, nextX(x, itemWidth), y)

\* Variant: the loop over the row starts at its second item.
finalizeRowPlaced_fromSecond(W, T, items, aspectSum, y, isLastRow) ==
    IF Len(items) = 0 THEN <<>>
    ELSE placeFrom(items, 2, rowHeightOf(W, T, aspectSum, isLastRow), 0, y)

\* finalizeRow(items, aspectSum, y, isLastRow): what it pushes onto packed.
finalizeRowPlaced(W, T, items, aspectSum, y, isLastRow) ==
    IF Len(items) = 0 THEN <<>>
    ELSE placeFrom(items, 1, rowHeightOf(W, T, aspectSum, isLastRow), 0, y)

\* finalizeRow(items, aspectSum, y, isLastRow): its return value.
finalizeRowHeight(W, T, items, aspectSum, isLastRow) ==
    IF Len(items) = 0 THEN 0
    ELSE Floor(rowHeightOf(W, T, aspectSum, isLastRow))

\* Variant: the loop walks [...pinned, ...unpinned].
packOrder_partition(list) ==
    SelectSeq(list, LAMBDA i : i.pinned) \o SelectSeq(list, LAMBDA i : ~i.pinned)

\* for (const item of itemList): the list the loop walks.
packOrder(list) == list

\* Variant: the item tested before it is put into the row.
pushRowItem_later(buffer, item) == buffer

\* Variant: rowItems.unshift(item).
pushRowItem_unshift(buffer, item) == <<item>> \o buffer

\* rowItems.push(item)
pushRowItem(buffer, item) == Append(buffer, item)

\* Variant: the comparison the other way round.
rowIsFull_flipped(potentialHeight, T) == NumLe(T, potentialHeight)

\* Variant: strict comparison.
rowIsFull_strict(potentialHeight, T) == NumLt(potentialHeight, T)

\* if (potentialHeight <= targetRowHeight)
rowIsFull(potentialHeight, T) == NumLe(potentialHeight, T)

\* The record of one finalizeRow call: where its items start in packed, how
\* many they are, the arguments aspectSum, y and isLastRow, the value returned.
RowRecord(first, n, aspectSum, y, isLastRow, h) ==
    [first |-> first, n |-> n, aspectSum |-> aspectSum, y |-> y,
     isLastRow |-> isLastRow, height |-> h]

Init ==
    /\ itemList \in UNION { ItemLists(n) : n \in 0..MaxItems }
    /\ containerWidth \in WidthSet
    /\ targetRowHeight \in TargetSet
    /\ packed = <<>>
    /\ currentY = 0
    /\ rowItems = <<>>
    /\ rowAspectSum = Zero
    /\ idx = 1
    /\ pc = "loop"
    /\ rows = <<>>
    /\ AppIdle

\* One iteration of `for (const item of itemList)`.
LoopStep ==
    /\ pc = "loop"
    /\ idx <= Len(itemList)
    /\ LET item == packOrder(itemList)[idx]
           aspectRatio == aspectRatioOf(item)
           buffer == pushRowItem(rowItems, item)
           aspectSum == NumAdd(rowAspectSum, aspectRatio)
           potentialHeight == NumDiv(containerWidth, aspectSum)
       IN  IF rowIsFull(potentialHeight, targetRowHeight)
           THEN LET rowHeight == finalizeRowHeight(containerWidth, targetRowHeight,
                                                   buffer, aspectSum, FALSE)
                IN  /\ packed' = packed \o finalizeRowPlaced(containerWidth,
                                     targetRowHeight, buffer, aspectSum, currentY, FALSE)
                    /\ rows' = Append(rows, RowRecord(Len(packed) + 1, Len(buffer),
                                     aspectSum, currentY, FALSE, rowHeight))
                    /\ currentY' = currentY + rowHeight
                    /\ rowItems' = <<>>
                    /\ rowAspectSum' = Zero
           ELSE /\ rowItems' = buffer
                /\ rowAspectSum' = aspectSum
                /\ UNCHANGED <<packed, currentY, rows>>
    /\ idx' = idx + 1
    /\ UNCHANGED <<itemList, containerWidth, targetRowHeight, pc>>
    /\ UNCHANGED appVars

\* if (rowItems.length > 0) { finalizeRow(rowItems, rowAspectSum, currentY, true) }
\* return packed
Flush ==
    /\ pc = "loop"
    /\ idx > Len(itemList)
    /\ IF Len(rowItems) > 0
       THEN LET rowHeight == finalizeRowHeight(containerWidth, targetRowHeight,
                                               rowItems, rowAspectSum, TRUE)
            IN  /\ packed' = packed \o finalizeRowPlaced(containerWidth,
                                 targetRowHeight, rowItems, rowAspectSum, currentY, TRUE)
                /\ rows' = Append(rows, RowRecord(Len(packed) + 1, Len(rowItems),
                                 rowAspectSum, currentY, TRUE, rowHeight))
                /\ currentY' = currentY + rowHeight
       ELSE UNCHANGED <<packed, currentY, rows>>
    /\ pc' = "done"
    /\ UNCHANGED <<itemList, containerWidth, targetRowHeight, rowItems,
                   rowAspectSum, idx>>
    /\ UNCHANGED appVars

Next == LoopStep \/ Flush

Spec == Init /\ [][Next]_vars

\* ------------------------------------------------------ reading a layout

Done == pc = "done"

\* The rows closed by the loop (finalizeRow called without isLastRow).
CompletedRows == { k \in DOMAIN rows : ~rows[k].isLastRow }

\* The positions in packed of the items of row k.
RowIndices(k) == rows[k].first .. (rows[k].first + rows[k].n - 1)

\* The input item a placed record was made from.
SourceOf(placed) == itemList[placed.id]

RECURSIVE SumWidths(_, _)
SumWidths(from, to) ==
    IF from > to THEN 0 ELSE packed[from].width + SumWidths(from + 1, to)

\* The sum of the placed widths of row k: its right edge.
RowWidth(k) == SumWidths(rows[k].first, rows[k].first + rows[k].n - 1)

\* The gap between the right edge of row k and containerWidth is less than g
\* pixels (g a whole number).
GapBelow(k, g) == NumLt(containerWidth, Num(RowWidth(k) + g))

RECURSIVE SumRatios(_, _)
SumRatios(from, to) ==
    IF to < from THEN Zero
    ELSE NumAdd(SumRatios(from, to - 1), aspectRatioOf(SourceOf(packed[to])))

\* S of row k, summed again, left to right, from the input items of the row.
RowRatioSum(k) == SumRatios(rows[k].first, rows[k].first + rows[k].n - 1)

\* The number h has no fractional part.
IsWhole(h) == Num(Floor(h)) = h

\* containerWidth / S
JustifiedHeight(aspectSum) == NumDiv(containerWidth, aspectSum)

\* |h - targetRowHeight|
Deviation(h) == NumAbsDiff(h, targetRowHeight)

PinnedFirst(list) ==
    \A i, j \in DOMAIN list : (i < j /\ list[j].pinned) => list[i].pinned

Mixed(list) ==
    /\ \E i \in DOMAIN list : list[i].pinned
    /\ \E i \in DOMAIN list : ~list[i].pinned

\* The loop is about to take itemList[idx].
AtItem == pc = "loop" /\ idx <= Len(itemList)

\* h' = containerWidth / (S + a) for the item the loop is about to take.
TentativeHeight ==
    JustifiedHeight(NumAdd(rowAspectSum, aspectRatioOf(itemList[idx])))

\* The step emits the buffer together with the item just taken; the next row
\* starts empty.
EmitsWithItem ==
    /\ rowItems' = <<>>
    /\ Len(packed') = Len(packed) + Len(rowItems) + 1
    /\ packed'[Len(packed')].id = itemList[idx].id

\* The step emits the buffer as it was; the item taken opens the next row.
EmitsWithoutItem ==
    /\ rowItems' = <<itemList[idx]>>
    /\ Len(packed') = Len(packed) + Len(rowItems)

\* ----------------------------------------------------------------- claims

\* C1 (as stated): at a decision point (non-empty buffer, h' < target) the row is
\* emitted without the item when |h_prev - target| <= |h' - target|, and with
\* the item otherwise.
C1_ClosestToTargetBreak ==
    [][ (AtItem /\ Len(rowItems) > 0 /\ NumLt(TentativeHeight, targetRowHeight))
        => IF NumLe(Deviation(JustifiedHeight(rowAspectSum)), Deviation(TentativeHeight))
           THEN EmitsWithoutItem
           ELSE EmitsWithItem ]_vars

\* C1 (amended): at a decision point (non-empty buffer, h' < target) the row is
\* always emitted including the item and the next row starts empty, whichever
\* of |h_prev - target| and |h' - target| is the smaller.
C1_ThresholdBreak ==
    [][ (AtItem /\ Len(rowItems) > 0 /\ NumLt(TentativeHeight, targetRowHeight))
        => EmitsWithItem ]_vars

\* A row of several items was closed by an item although the height without
\* that item was at least as close to the target.
C1_Witness ==
    \E k \in CompletedRows :
        /\ rows[k].n >= 2
        /\ LET last == rows[k].first + rows[k].n - 1
               S == rows[k].aspectSum
               hPrev == JustifiedHeight(SumRatios(rows[k].first, last - 1))
           IN  /\ NumLt(JustifiedHeight(S), targetRowHeight)
               /\ NumLe(Deviation(hPrev), Deviation(JustifiedHeight(S)))

\* C2 (as stated): an item that brings the tentative height exactly to the
\* target does not close the row; it stays in the open buffer.
C2_EqualityKeepsAccumulating ==
    [][ (AtItem /\ TentativeHeight = targetRowHeight)
        => (rowItems' = Append(rowItems, itemList[idx]) /\ packed' = packed) ]_vars

\* C2 (amended): a row is closed exactly when the tentative height is at most
\* the target, equality included: the open buffer always has a justified
\* height strictly above the target, every completed row one at or below it.
C2_EqualityClosesRow ==
    /\ Len(rowItems) > 0 => NumLt(targetRowHeight, JustifiedHeight(rowAspectSum))
    /\ \A k \in CompletedRows :
           NumLe(JustifiedHeight(RowRatioSum(k)), targetRowHeight)

\* A row was closed at exactly the target height and the buffer is empty.
C2_Witness ==
    /\ rows # <<>>
    /\ ~rows[Len(rows)].isLastRow
    /\ JustifiedHeight(rows[Len(rows)].aspectSum) = targetRowHeight
    /\ rows[Len(rows)].n >= 2
    /\ rowItems = <<>>

\* C3 (as stated): the output lists every pinned item before every other item,
\* each group in its input order, whatever the order of the input.
C3_PackerPartitions ==
    Done =>
        /\ PinnedFirst(packed)
        /\ \A i, j \in DOMAIN packed :
               (i < j /\ packed[i].pinned = packed[j].pinned)
                   => packed[i].id < packed[j].id

\* C3 (amended): the packer does not partition: the output keeps the input
\* order, so pinned items come before all others in the output exactly when
\* they do in the input (each group in its input order).
C3_InputOrderKept ==
    Done =>
        /\ PinnedFirst(packed) <=> PinnedFirst(itemList)
        /\ \A i, j \in DOMAIN packed :
               (i < j /\ packed[i].pinned = packed[j].pinned)
                   => packed[i].id < packed[j].id
        /\ \A i \in DOMAIN packed : packed[i].pinned = SourceOf(packed[i]).pinned

\* A finished pack of a list that has an unpinned item before a pinned one.
C3_Witness ==
    /\ Done
    /\ Mixed(itemList)
    /\ ~PinnedFirst(itemList)
    /\ Len(packed) >= 3

\* C4: with no pinned item in the input, the i-th placed record is made from
\* the i-th input item.
C4_IdentityOrder ==
    (Done /\ \A i \in DOMAIN itemList : ~itemList[i].pinned)
        => /\ DOMAIN packed = DOMAIN itemList
           /\ \A i \in DOMAIN itemList : packed[i].id = itemList[i].id

\* A finished pack of three or more unpinned items laid out in several rows.
C4_Witness ==
    /\ Done
    /\ \A i \in DOMAIN itemList : ~itemList[i].pinned
    /\ Len(itemList) >= 3
    /\ Len(rows) >= 2
    /\ \E k \in DOMAIN rows : rows[k].n >= 2

\* C5: after the trailing flush the output has exactly one placed record per
\* input item.
C5_Conservation ==
    Done =>
        /\ Len(packed) = Len(itemList)
        /\ \A i \in DOMAIN itemList :
               Cardinality({ k \in DOMAIN packed : packed[k].id = itemList[i].id }) = 1

\* A finished pack with a completed row and a trailing row.
C5_Witness ==
    /\ Done
    /\ Len(itemList) >= 3
    /\ CompletedRows # {}
    /\ rows[Len(rows)].isLastRow

\* C6: in every completed row of n items the placed widths sum to at most
\* containerWidth and to more than containerWidth - n.
C6_WidthContainment ==
    \A k \in CompletedRows :
        /\ NumLe(Num(RowWidth(k)), containerWidth)
        /\ GapBelow(k, rows[k].n)

\* C7 (as stated): in every completed row the gap between the right edge and
\* containerWidth is strictly less than 1 pixel.
C7_DriftBelowOnePixel ==
    \A k \in CompletedRows : GapBelow(k, 1)

\* C7 (amended): in every completed row of n items the right edge falls short
\* of containerWidth by less than n + 1 pixels, and by at most n pixels when
\* containerWidth is a whole number: the drift is bounded per item, not per
\* row.
C7_DriftBoundedPerItem ==
    \A k \in CompletedRows :
        /\ GapBelow(k, rows[k].n + 1)
        /\ IsWhole(containerWidth)
               => NumLe(containerWidth, Num(RowWidth(k) + rows[k].n))

\* A completed row of several items whose right edge is a full pixel or more
\* short of containerWidth.
C7_Witness ==
    \E k \in CompletedRows : rows[k].n >= 2 /\ ~GapBelow(k, 1)

\* C8: the first row is at y = 0, every later row at the y of the row before
\* plus that row's height, and y is strictly increasing from row to row.
C8_MonotonicY ==
    \A k \in DOMAIN rows :
        /\ \A i \in RowIndices(k) : packed[i].y = packed[rows[k].first].y
        /\ k = 1 => packed[rows[k].first].y = 0
        /\ k > 1 =>
               LET prev == packed[rows[k - 1].first]
                   y == packed[rows[k].first].y
               IN  /\ y = prev.y + prev.height
                   /\ y > prev.y

\* C9: in every row the first item is at x = 0 and every item starts where
\* the one before it ends.
C9_NoHorizontalOverlap ==
    \A k \in DOMAIN rows :
        /\ packed[rows[k].first].x = 0
        /\ \A i \in RowIndices(k) :
               (i + 1) \in RowIndices(k)
                   => packed[i].x + packed[i].width = packed[i + 1].x

\* A row of several items of positive width.
C9_Witness ==
    \E k \in DOMAIN rows :
        /\ rows[k].n >= 3
        /\ \A i \in RowIndices(k) : packed[i].width > 0

\* C10: the items of a completed row all have the height
\* floor(containerWidth / S), S the sum of the row's aspect ratios.
C10_RowHeightConsistency ==
    \A k \in CompletedRows :
        \A i \in RowIndices(k) :
            packed[i].height = Floor(JustifiedHeight(RowRatioSum(k)))

\* A completed row of several items whose justified height is not a whole
\* number.
C10_Witness ==
    \E k \in CompletedRows :
        /\ rows[k].n >= 2
        /\ ~IsWhole(JustifiedHeight(RowRatioSum(k)))

\* C11: every placed item has x >= 0, y >= 0, width > 0 and height > 0
\* (containerWidth, targetRowHeight and all aspect ratios being positive).
C11_PositiveGeometry ==
    \A i \in DOMAIN packed :
        /\ packed[i].x >= 0
        /\ packed[i].y >= 0
        /\ packed[i].width > 0
        /\ packed[i].height > 0

\* ------------------------------------- packItemsTight, variant part_002

\* The variant part_002 of packItemsTight runs on the same variables:
\* rowItems is its currentRow, rowAspectSum its currentRowAspectSum; x, y,
\* width and height are numbers it does not floor.

\* Item lists without pinned items (no variant of the packer reads the flag).
PlainLists(n) == { list \in ItemLists(n) : \A i \in 1..n : ~list[i].pinned }

\* const ratio = item.aspect_ratio || (item.width / item.height) || 1
\* (no item tried has height 0)
ratioOf(item) ==
    IF item.aspect_ratio # Zero
    THEN item.aspect_ratio
    ELSE LET quotient == NumDiv(Num(item.width), Num(item.height))
         IN  IF quotient # Zero THEN quotient ELSE Num(1)

\* { ...item, ratio }
withRatio(item) == ("ratio" :> ratioOf(item)) @@ item

\* const totalRelativeWidth = currentRowAspectSum * targetRowHeight
totalRelativeWidth(aspectSum, T) == NumMul(aspectSum, T)

\* Variant: the trailing row justified like a completed row.
lastRowHeight_justified(W, T, aspectSum) == NumDiv(W, aspectSum)

\* height: targetRowHeight, in the loop over the trailing row
lastRowHeight(W, T, aspectSum) == T

\* is_in_last_row: false in the loop over a completed row, true in the loop
\* over the trailing row
lastRowFlag(inLastRow) == inLastRow

\* The loops over a row (completed, trailing), from item k on, x being the
\* running offset: the records pushed onto packed.
RECURSIVE placeRowFrom(_, _, _, _, _, _)
placeRowFrom(row, k, rowHeight, x, y, inLastRow) ==
    IF k > Len(row) THEN <<>>
    ELSE LET rowItem == row[k]
             itemWidth == NumMul(rowHeight, rowItem.ratio)
             placed == ("is_in_last_row" :> lastRowFlag(inLastRow))
                       @@ [rowItem EXCEPT !.x = x, !.y = y,
                                          !.width = itemWidth, !.height = rowHeight]
         IN  <<placed>>
             \o placeRowFrom(row, k + 1, rowHeight, NumAdd(x, itemWidth), y, inLastRow)

InitPart002 ==
    /\ itemList \in UNION { PlainLists(n) : n \in 0..MaxItems }
    /\ containerWidth \in WidthSet
    /\ targetRowHeight \in TargetSet
    /\ packed = <<>>
    /\ currentY = Zero
    /\ rowItems = <<>>
    /\ rowAspectSum = Zero
    /\ idx = 1
    /\ pc = "part_002.loop"
    /\ rows = <<>>
    /\ AppIdle

\* One iteration of `for (const item of itemList)` of part_002.
LoopStepPart002 ==
    /\ pc = "part_002.loop"
    /\ idx <= Len(itemList)
    /\ LET item == itemList[idx]
           currentRow == Append(rowItems, withRatio(item))
           aspectSum == NumAdd(rowAspectSum, ratioOf(item))
       IN  IF NumLe(containerWidth, totalRelativeWidth(aspectSum, targetRowHeight))
           THEN LET rowHeight == NumDiv(containerWidth, aspectSum)
                IN  /\ packed' = packed \o placeRowFrom(currentRow, 1, rowHeight,
                                                        Zero, currentY, FALSE)
                    /\ rows' = Append(rows, RowRecord(Len(packed) + 1, Len(currentRow),
                                                      aspectSum, currentY, FALSE, rowHeight))
                    /\ currentY' = NumAdd(currentY, rowHeight)
                    /\ rowItems' = <<>>
                    /\ rowAspectSum' = Zero
           ELSE /\ rowItems' = currentRow
                /\ rowAspectSum' = aspectSum
                /\ UNCHANGED <<packed, currentY, rows>>
    /\ idx' = idx + 1
    /\ UNCHANGED <<itemList, containerWidth, targetRowHeight, pc>>
    /\ UNCHANGED appVars

\* if (currentRow.length > 0) { the loop over the trailing row }
\* return packed
FlushPart002 ==
    /\ pc = "part_002.loop"
    /\ idx > Len(itemList)
    /\ IF Len(rowItems) > 0
       THEN LET rowHeight == lastRowHeight(containerWidth, targetRowHeight, rowAspectSum)
            IN  /\ packed' = packed \o placeRowFrom(rowItems, 1, rowHeight,
                                                    Zero, currentY, TRUE)
                /\ rows' = Append(rows, RowRecord(Len(packed) + 1, Len(rowItems),
                                                  rowAspectSum, currentY, TRUE, rowHeight))
       ELSE UNCHANGED <<packed, rows>>
    /\ pc' = "part_002.done"
    /\ UNCHANGED <<itemList, containerWidth, targetRowHeight, currentY, rowItems,
                   rowAspectSum, idx>>
    /\ UNCHANGED appVars

NextPart002 == LoopStepPart002 \/ FlushPart002

SpecPart002 == InitPart002 /\ [][NextPart002]_vars

DonePart002 == pc = "part_002.done"

\* The trailing row of part_002: the rowItems left when the input is exhausted,
\* which are the last records of packed.
TrailingCount == IF DonePart002 THEN Len(rowItems) ELSE 0

TrailingPlaced(k) == packed[Len(packed) - TrailingCount + k]

TrailingSource(k) == itemList[Len(itemList) - TrailingCount + k]

\* C12: under the default policy (part_002) the items left in the buffer when
\* the input is exhausted are placed from x = 0, each directly after the one
\* before, with height exactly targetRowHeight and width targetRowHeight *
\* ratio: not scaled to containerWidth, the last one not snapped to the edge.
C12_TrailingRowAtTarget ==
    \A k \in 1..TrailingCount :
        /\ TrailingPlaced(k).height = targetRowHeight
        /\ TrailingPlaced(k).width = NumMul(targetRowHeight, ratioOf(TrailingSource(k)))
        /\ TrailingPlaced(k).y = currentY
        /\ TrailingPlaced(k).x =
              IF k = 1 THEN Zero
              ELSE NumAdd(TrailingPlaced(k - 1).x, TrailingPlaced(k - 1).width)

\* A trailing row of two items or more, which a justified row would have
\* stretched to containerWidth.
C12_Witness ==
    /\ TrailingCount >= 2
    /\ NumDiv(containerWidth, rowAspectSum) # targetRowHeight

\* The row left in the buffer when the input is exhausted (utils/packing.js).
LastRows == { k \in DOMAIN rows : rows[k].isLastRow }

\* containerWidth / S exceeds targetRowHeight * 1.5 for row k.
TooTall(k) ==
    NumLt(NumMul(targetRowHeight, OneAndAHalf), JustifiedHeight(RowRatioSum(k)))

C14_LastRowFlag ==
    /\ \A k \in LastRows : k = Len(rows) /\ (Done \/ DonePart002)
    /\ \A k \in DOMAIN rows : \A i \in RowIndices(k) :
          /\ "is_in_last_row" \in DOMAIN packed[i]
          /\ packed[i].is_in_last_row = rows[k].isLastRow

\* ----------------------------- packItemsTight on items without a dimension

\* Items with no aspect_ratio and a missing (or zero) width or height, next
\* to a complete one; 0 stands for the missing field, which `||` treats as 0.
PartialShapes ==
    { [aspect_ratio |-> Absent, width |-> 0,   height |-> 50],
      [aspect_ratio |-> Absent, width |-> 150, height |-> 0],
      [aspect_ratio |-> Absent, width |-> 150, height |-> 100] }

PartialLists(n) ==
    { [i \in 1..n |-> MkItem(i, f[i], FALSE)] : f \in [1..n -> PartialShapes] }

\* packItemsTight of utils/packing.js called with such a list.
InitPartial ==
    /\ itemList \in UNION { PartialLists(n) : n \in 0..MaxItems }
    /\ containerWidth \in WidthSet
    /\ targetRowHeight \in TargetSet
    /\ packed = <<>>
    /\ currentY = 0
    /\ rowItems = <<>>
    /\ rowAspectSum = Zero
    /\ idx = 1
    /\ pc = "loop"
    /\ rows = <<>>
    /\ AppIdle

SpecPartial == InitPartial /\ [][Next]_vars

\* The resolution rule of the item contract: the explicit ratio if present,
\* else width / height when both are > 0, else 1.0.
ResolvedRatio(item) ==
    IF item.aspect_ratio # Zero THEN item.aspect_ratio
    ELSE IF item.width > 0 /\ item.height > 0
         THEN NumDiv(Num(item.width), Num(item.height))
         ELSE Num(1)

\* The ratio sum of the row the item just taken went into.
SumAfterTaking ==
    IF rowItems' = <<>> THEN rows'[Len(rows')].aspectSum ELSE rowAspectSum'

\* C15: the ratio that enters the row sum for an item is its explicit ratio if
\* present, else width / height when both are > 0, else exactly 1.0.
C15_RatioFallsBackToOne ==
    [][ AtItem => SumAfterTaking = NumAdd(rowAspectSum, ResolvedRatio(itemList[idx])) ]_vars

\* ------------------------------------- packItemsTight on its own output

\* packItemsTight as a function of its arguments: the loop from item k on,
\* with the open row and the running y, then the flush.
RECURSIVE packFrom(_, _, _, _, _, _, _)
packFrom(list, W, T, k, buffer, aspectSum, y) ==
    IF k > Len(list)
    THEN finalizeRowPlaced(W, T, buffer, aspectSum, y, TRUE)
    ELSE LET item == packOrder(list)[k]
             row == pushRowItem(buffer, item)
             sum == NumAdd(aspectSum, aspectRatioOf(item))
         IN  IF rowIsFull(NumDiv(W, sum), T)
             THEN finalizeRowPlaced(W, T, row, sum, y, FALSE)
                  \o packFrom(list, W, T, k + 1, <<>>, Zero,
                              y + finalizeRowHeight(W, T, row, sum, FALSE))
             ELSE packFrom(list, W, T, k + 1, row, sum, y)

packItemsTightOf(list, W, T) == packFrom(list, W, T, 1, <<>>, Zero, 0)

\* Items without aspect_ratio (the text items of handleAddText): their ratio
\* is taken from width and height, which the packer overwrites.
TextShapes ==
    { [aspect_ratio |-> Absent, width |-> 100, height |-> 100],
      [aspect_ratio |-> Absent, width |-> 140, height |-> 100],
      [aspect_ratio |-> Absent, width |-> 150, height |-> 100] }

TextLists(n) ==
    { [i \in 1..n |-> MkItem(i, f[i], FALSE)] : f \in [1..n -> TextShapes] }

\* handlePack: packItemsTight(items, width, baseSize) on the items that an
\* earlier packItemsTight with the same width and baseSize returned.
InitRepack ==
    /\ containerWidth \in WidthSet
    /\ targetRowHeight \in TargetSet
    /\ \E list \in UNION { TextLists(n) : n \in 0..MaxItems } :
          itemList = packItemsTightOf(list, containerWidth, targetRowHeight)
    /\ packed = <<>>
    /\ currentY = 0
    /\ rowItems = <<>>
    /\ rowAspectSum = Zero
    /\ idx = 1
    /\ pc = "loop"
    /\ rows = <<>>
    /\ AppIdle

SpecRepack == InitRepack /\ [][Next]_vars

\* C16: packing the packer's own output with the same containerWidth and
\* targetRowHeight, the ratios taken from the output width and height,
\* returns the same x, y, width and height for every item.
C16_Idempotent ==
    Done => /\ Len(packed) = Len(itemList)
            /\ \A i \in DOMAIN packed :
                  /\ packed[i].x = itemList[i].x
                  /\ packed[i].y = itemList[i].y
                  /\ packed[i].width = itemList[i].width
                  /\ packed[i].height = itemList[i].height

\* ------------------------------------- packItemsTight, variant part_003

\* The variant part_003 declares currentRow and currentRowAspect (rowItems and
\* rowAspectSum here) and neither packed nor currentY: the first evaluation of
\* `packed` throws a ReferenceError, which ends the call. The variables packed
\* and currentY keep their initial values throughout.
InitPart003 ==
    /\ itemList \in UNION { PlainLists(n) : n \in 0..MaxItems }
    /\ containerWidth \in WidthSet
    /\ targetRowHeight \in TargetSet
    /\ packed = <<>>
    /\ currentY = Zero
    /\ rowItems = <<>>
    /\ rowAspectSum = Zero
    /\ idx = 1
    /\ pc = "part_003.loop"
    /\ rows = <<>>
    /\ AppIdle

\* One iteration of `for (const item of itemList)` of part_003: a row that is
\* full reaches packed.push in the loop over the row.
LoopStepPart003 ==
    /\ pc = "part_003.loop"
    /\ idx <= Len(itemList)
    /\ LET item == itemList[idx]
           currentRow == Append(rowItems, withRatio(item))
           currentRowAspect == NumAdd(rowAspectSum, ratioOf(item))
           potentialHeight == NumDiv(containerWidth, currentRowAspect)
       IN  /\ rowItems' = currentRow
           /\ rowAspectSum' = currentRowAspect
           /\ pc' = IF NumLe(potentialHeight, targetRowHeight)
                    THEN "part_003.threw"
                    ELSE "part_003.loop"
    /\ idx' = idx + 1
    /\ UNCHANGED <<itemList, containerWidth, targetRowHeight, packed, currentY, rows>>
    /\ UNCHANGED appVars

\* After the loop: packed.push for the first item of a trailing row, or
\* `return packed` when there is none.
FlushPart003 ==
    /\ pc = "part_003.loop"
    /\ idx > Len(itemList)
    /\ pc' = "part_003.threw"
    /\ UNCHANGED <<itemList, containerWidth, targetRowHeight, packed, currentY,
                   rowItems, rowAspectSum, idx, rows>>
    /\ UNCHANGED appVars

NextPart003 == LoopStepPart003 \/ FlushPart003

SpecPart003 == InitPart003 /\ [][NextPart003]_vars

\* The call ended with an exception.
Threw == pc = "part_003.threw"

\* The call returned packed.
Returned == Done \/ DonePart002

\* C17: a call with an empty itemList does not throw, and what it returns is
\* the empty list.
C17_EmptyInputReturnsEmpty ==
    itemList = <<>> => (~Threw /\ (Returned => packed = <<>>))

\* C18: every row emitted holds at least one item, and an item that finds the
\* buffer empty and alone brings the height below targetRowHeight is emitted
\* as a row of its own.
C18_NoEmptyRows ==
    /\ [](\A k \in DOMAIN rows : rows[k].n >= 1)
    /\ [][ (AtItem /\ rowItems = <<>> /\ NumLt(TentativeHeight, targetRowHeight))
           => /\ Len(rows') = Len(rows) + 1
              /\ rows'[Len(rows')].n = 1
              /\ Len(packed') = Len(packed) + 1
              /\ packed'[Len(packed')].id = itemList[idx].id ]_vars

\* A completed row of one item whose ratio alone brought the height below the
\* target.
C18_Witness ==
    \E k \in CompletedRows :
        /\ rows[k].n = 1
        /\ NumLt(JustifiedHeight(RowRatioSum(k)), targetRowHeight)

\* ------------------------------ part_002 on items with a field named ratio

\* An item whose payload has a field of its own called ratio.
WithRatioField(item) == ("ratio" :> Num(2)) @@ item

PayloadLists(n) ==
    { [i \in 1..n |-> WithRatioField(list[i])] : list \in PlainLists(n) }

\* packItemsTight of part_002 called with such a list.
InitPayload ==
    /\ itemList \in UNION { PayloadLists(n) : n \in 0..MaxItems }
    /\ containerWidth \in WidthSet
    /\ targetRowHeight \in TargetSet
    /\ packed = <<>>
    /\ currentY = Zero
    /\ rowItems = <<>>
    /\ rowAspectSum = Zero
    /\ idx = 1
    /\ pc = "part_002.loop"
    /\ rows = <<>>
    /\ AppIdle

SpecPayload == InitPayload /\ [][NextPart002]_vars

\* The fields the packer writes.
GeometryFields == {"x", "y", "width", "height", "is_in_last_row"}

\* C19: every field of an input item other than x, y, width, height and the
\* last-row flag has the same value in the placed record made from the item
\* (the i-th placed record is made from the i-th item), and the call leaves
\* the input list as it was.
C19_PayloadPassThrough ==
    /\ [](\A i \in DOMAIN packed :
            \A f \in (DOMAIN itemList[i]) \ GeometryFields :
                /\ f \in DOMAIN packed[i]
                /\ packed[i][f] = itemList[i][f])
    /\ [][itemList' = itemList]_vars

\* ----------------------------------- packItemsTight with containerWidth 0

\* packItemsTight of utils/packing.js called with containerWidth = 0.
InitDegenerate ==
    /\ itemList \in UNION { ItemLists(n) : n \in 0..MaxItems }
    /\ containerWidth = Zero
    /\ targetRowHeight \in TargetSet
    /\ packed = <<>>
    /\ currentY = 0
    /\ rowItems = <<>>
    /\ rowAspectSum = Zero
    /\ idx = 1
    /\ pc = "loop"
    /\ rows = <<>>
    /\ AppIdle

SpecDegenerate == InitDegenerate /\ [][Next]_vars

\* C20: a call with containerWidth <= 0 is rejected: it places no item and
\* does not return.
C20_DegenerateRejected ==
    containerWidth = Zero => (packed = <<>> /\ ~Returned)

\* ------------------------------------ packItemsTight at application scale

\* Items of ratio 2.0 and 1.0, container widths 400 and 500, targets 150 and
\* 100.
ExampleShapes ==
    { [aspect_ratio |-> Num(2), width |-> 200, height |-> 100],
      [aspect_ratio |-> Num(1), width |-> 100, height |-> 100] }

ExampleLists(n) ==
    { [i \in 1..n |-> MkItem(i, f[i], FALSE)] : f \in [1..n -> ExampleShapes] }

InitExample ==
    /\ itemList \in UNION { ExampleLists(n) : n \in 0..MaxItems }
    /\ containerWidth \in {Num(400), Num(500)}
    /\ targetRowHeight \in {Num(150), Num(100)}
    /\ packed = <<>>
    /\ currentY = 0
    /\ rowItems = <<>>
    /\ rowAspectSum = Zero
    /\ idx = 1
    /\ pc = "loop"
    /\ rows = <<>>
    /\ AppIdle

SpecExample == InitExample /\ [][Next]_vars

\* The call of the worked example has returned.
ExampleDone ==
    /\ Done
    /\ Len(itemList) = 3
    /\ <<itemList[1].aspect_ratio, itemList[2].aspect_ratio, itemList[3].aspect_ratio>>
          = <<Num(2), Num(1), Num(1)>>
    /\ containerWidth = Num(400)
    /\ targetRowHeight = Num(150)

\* <<x, y, width, height>> of the i-th placed record.
Geometry(i) == <<packed[i].x, packed[i].y, packed[i].width, packed[i].height>>

\* C21 (as stated): ratios [2.0, 1.0, 1.0], containerWidth 400, target 150:
\* items 1 and 2 at y = 0 with height 133 and widths 267 and 133 (sum 400),
\* item 3 at x = 0, y = 133 with width 150 and height 150.
C21_WorkedExample ==
    ExampleDone =>
        /\ Len(packed) = 3
        /\ Geometry(1) = <<0, 0, 267, 133>>
        /\ Geometry(2) = <<267, 0, 133, 133>>
        /\ Geometry(3) = <<0, 133, 150, 150>>

\* C21 (amended): the same call places item 1 with width 266 =
\* floor(133.33 * 2.0) and item 2 at x = 266 with width 133, the row ending
\* at 399; item 3 is at x = 0, y = 133 with width 150 and height 150.
C21_WorkedExampleFloored ==
    ExampleDone =>
        /\ Len(packed) = 3
        /\ Geometry(1) = <<0, 0, 266, 133>>
        /\ Geometry(2) = <<266, 0, 133, 133>>
        /\ Geometry(3) = <<0, 133, 150, 150>>
        /\ rows[1].n = 2 /\ ~rows[1].isLastRow
        /\ rows[2].n = 1 /\ rows[2].isLastRow

C21_Witness == ExampleDone /\ Len(packed) = 3

\* The loop of part_003 is about to take the item that fills the row.
AtClosingItemPart003 ==
    /\ pc = "part_003.loop"
    /\ idx <= Len(itemList)
    /\ NumLe(NumDiv(containerWidth, NumAdd(rowAspectSum, ratioOf(itemList[idx]))),
             targetRowHeight)

\* C22: in the variant with edge snapping (part_003) the item that fills a row
\* has the row placed, and the last item of the row gets the width
\* containerWidth - x: it is wider than 0 and ends exactly at containerWidth.
C22_SnapLastToEdge ==
    [][ AtClosingItemPart003
        => /\ Len(packed') = Len(packed) + Len(rowItems) + 1
           /\ LET last == packed'[Len(packed')]
              IN  /\ last.width # Zero
                  /\ NumAdd(last.x, last.width) = containerWidth ]_vars

\* --------------------------------------- the application of part_010

\* In the application containerWidth is window.innerWidth / canvasScale and
\* targetRowHeight is baseSize. A handler that calls packItemsTight hands the
\* list over in itemList and lets the loop run (pc = "loop"); at pc = "done"
\* it takes the result from packed and goes on.
PackerIdle ==
    /\ itemList = <<>>
    /\ packed = <<>>
    /\ currentY = 0
    /\ rowItems = <<>>
    /\ rowAspectSum = Zero
    /\ idx = 1
    /\ rows = <<>>

\* packItemsTight(list, ...) is entered.
CallPacker(list) ==
    /\ itemList' = list
    /\ packed' = <<>>
    /\ currentY' = 0
    /\ rowItems' = <<>>
    /\ rowAspectSum' = Zero
    /\ idx' = 1
    /\ rows' = <<>>
    /\ pc' = "loop"

\* The item lists a collage holds when it is loaded.
LoadedLists == UNION { PlainLists(n) : n \in 0..(MaxItems - 1) }

\* An entry of collage_list, and of collageSets.
SetEntry(id) == [id |-> id, name |-> id]

\* A request of apiClient.collages.save on its way: POST /api/collages with
\* the body { id, name, items }; list is the handler's local `list`.
SaveRequest(id, name, body) ==
    [method |-> "POST", id |-> id, name |-> name, items |-> body,
     at |-> "get_list", list |-> <<>>]

\* saveCollage(overrideItems): if (!collageId) return; otherwise the POST.
saveCollage(overrideItems) ==
    IF collageId = "null"
    THEN inflight
    ELSE Append(inflight, SaveRequest(collageId, collageId, overrideItems))

\* handlePack = (customWidth = null, itemsToPack = null) => ... called with
\* (null, null, save), the window being width wide, up to the call of
\* packItemsTight: const targetItems = items. The third argument has no
\* parameter to receive it; the frame keeps it for the record.
handlePack(from, width, save) ==
    /\ pc = "app"
    /\ Len(inflight) < MaxRequests
    /\ containerWidth' = width
    /\ handler' = [name |-> "handlePack", from |-> from, save |-> save]
    /\ CallPacker(appItems)
    /\ UNCHANGED <<targetRowHeight, appItems, collageSets, collageId, kv, inflight>>

\* One collage "a" is open, with its items loaded and stored on the server.
InitResize ==
    /\ PackerIdle
    /\ pc = "app"
    /\ containerWidth \in WidthSet
    /\ targetRowHeight \in TargetSet
    /\ appItems \in LoadedLists
    /\ collageSets = <<SetEntry("a")>>
    /\ collageId = "a"
    /\ kv = [collage_list |-> <<SetEntry("a")>>, collage |-> [id \in {"a"} |-> appItems]]
    /\ inflight = <<>>
    /\ handler = NoHandler

\* window 'resize': handleResize calls onPackRef.current(null, null, false).
Resize ==
    /\ handler = NoHandler
    /\ \E width \in WidthSet \ {containerWidth} : handlePack("resize", width, FALSE)

\* The timer set on mount and on a change of canvasScale, 300 ms later:
\* onPackRef.current(null, null, false).
ScaleTimer ==
    /\ handler = NoHandler
    /\ handlePack("timer", containerWidth, FALSE)

\* The pack button of the header: onPack={() => handlePack()}.
PackButton ==
    /\ handler = NoHandler
    /\ handlePack("button", containerWidth, TRUE)

\* handlePack after packItemsTight has returned: setItems(packed);
\* saveCollage(packed)
HandlePackReturn ==
    /\ pc = "done"
    /\ handler.name = "handlePack"
    /\ appItems' = packed
    /\ inflight' = saveCollage(packed)
    /\ handler' = NoHandler
    /\ pc' = "app"
    /\ UNCHANGED <<itemList, containerWidth, targetRowHeight, packed, currentY,
                   rowItems, rowAspectSum, idx, rows, collageSets, collageId, kv>>

NextResize == Resize \/ ScaleTimer \/ PackButton \/ LoopStep \/ Flush \/ HandlePackReturn

SpecResize == InitResize /\ [][NextResize]_vars

\* C23: a repack triggered by a window resize or by the 300 ms timer changes
\* the displayed items only: from the event to the end of the handler no save
\* request is sent to the server.
C23_ResizeNeverSaves ==
    [][ handler.from \in {"resize", "timer"} => inflight' = inflight ]_vars

\* --------------------------------------------- the application of App.jsx

\* App.jsx has a packItemsTight of its own (a useCallback), with the loop of
\* utils/packing.js on the fields aspectRatio, baseWidth, baseHeight and
\* scale; its items may be pinned. It runs at pc = "App.loop".

\* item.aspectRatio || ((item.baseWidth || 100) / (item.baseHeight || 100))
aspectRatioApp(item) ==
    IF item.aspectRatio # Zero
    THEN item.aspectRatio
    ELSE NumDiv(Num(IF item.baseWidth # 0 THEN item.baseWidth ELSE 100),
                Num(IF item.baseHeight # 0 THEN item.baseHeight ELSE 100))

\* The loop of App.jsx's finalizeRow from item k on: the records pushed.
RECURSIVE placeFromApp(_, _, _, _, _)
placeFromApp(row, k, rowHeight, x, y) ==
    IF k > Len(row) THEN <<>>
    ELSE LET item == row[k]
             itemWidth == itemWidthOf(rowHeight, aspectRatioApp(item))
             itemHeight == itemHeightOf(rowHeight)
             baseW == IF item.baseWidth # 0 THEN item.baseWidth ELSE 100
             baseH == IF item.baseHeight # 0 THEN item.baseHeight ELSE 100
             placed == [item EXCEPT !.x = x, !.y = y,
                                    !.baseWidth = baseW, !.baseHeight = baseH,
                                    !.scale = NumDiv(Num(itemHeight), Num(baseH))]
         IN  <<placed>> \o placeFromApp(row, k + 1, rowHeight, nextX(x, itemWidth), y)

\* finalizeRow(items, aspectSum, y, isLastRow) of App.jsx: what it pushes.
finalizeRowApp(W, T, row, aspectSum, y, isLastRow) ==
    IF Len(row) = 0 THEN <<>>
    ELSE placeFromApp(row, 1, rowHeightOf(W, T, aspectSum, isLastRow), 0, y)

\* packItemsTight(list, canvasWidth) of App.jsx is entered:
\* if (itemList.length === 0) return []
CallPackerApp(list) ==
    /\ itemList' = list
    /\ packed' = <<>>
    /\ currentY' = 0
    /\ rowItems' = <<>>
    /\ rowAspectSum' = Zero
    /\ idx' = 1
    /\ rows' = <<>>
    /\ pc' = IF Len(list) = 0 THEN "App.done" ELSE "App.loop"

\* One iteration of `for (const item of itemList)` of App.jsx.
LoopStepApp ==
    /\ pc = "App.loop"
    /\ idx <= Len(itemList)
    /\ LET item == itemList[idx]
           buffer == Append(rowItems, item)
           aspectSum == NumAdd(rowAspectSum, aspectRatioApp(item))
           potentialHeight == NumDiv(containerWidth, aspectSum)
       IN  IF rowIsFull(potentialHeight, targetRowHeight)
           THEN LET rowHeight == finalizeRowHeight(containerWidth, targetRowHeight,
                                                   buffer, aspectSum, FALSE)
                IN  /\ packed' = packed \o finalizeRowApp(containerWidth,
                                     targetRowHeight, buffer, aspectSum, currentY, FALSE)
                    /\ rows' = Append(rows, RowRecord(Len(packed) + 1, Len(buffer),
                                     aspectSum, currentY, FALSE, rowHeight))
                    /\ currentY' = currentY + rowHeight
                    /\ rowItems' = <<>>
                    /\ rowAspectSum' = Zero
           ELSE /\ rowItems' = buffer
                /\ rowAspectSum' = aspectSum
                /\ UNCHANGED <<packed, currentY, rows>>
    /\ idx' = idx + 1
    /\ UNCHANGED <<containerWidth, targetRowHeight, itemList, pc>>
    /\ UNCHANGED appVars

\* The last row of App.jsx's packItemsTight, and `return packed`.
FlushApp ==
    /\ pc = "App.loop"
    /\ idx > Len(itemList)
    /\ IF Len(rowItems) > 0
       THEN LET rowHeight == finalizeRowHeight(containerWidth, targetRowHeight,
                                               rowItems, rowAspectSum, TRUE)
            IN  /\ packed' = packed \o finalizeRowApp(containerWidth,
                                 targetRowHeight, rowItems, rowAspectSum, currentY, TRUE)
                /\ rows' = Append(rows, RowRecord(Len(packed) + 1, Len(rowItems),
                                 rowAspectSum, currentY, TRUE, rowHeight))
                /\ currentY' = currentY + rowHeight
       ELSE UNCHANGED <<packed, currentY, rows>>
    /\ pc' = "App.done"
    /\ UNCHANGED <<containerWidth, targetRowHeight, itemList, rowItems,
                   rowAspectSum, idx>>
    /\ UNCHANGED appVars

\* The ids of the items of a list.
IdsOf(list) == { list[i].id : i \in DOMAIN list }

\* The image a file gives: { id, x: 0, y: 0, baseWidth, baseHeight, scale: 1,
\* aspectRatio }, with no pinned field, which reads as false.
NewImage(id, shape) ==
    [id |-> id, pinned |-> FALSE, aspectRatio |-> shape.aspect_ratio,
     x |-> 0, y |-> 0, baseWidth |-> shape.width, baseHeight |-> shape.height,
     scale |-> Num(1)]

\* The images added.
AppShapes == { shape \in ItemShapes : shape.width = 140 }

\* All orders of a list.
Orders(list) ==
    { [i \in DOMAIN list |-> list[f[i]]] :
        f \in { g \in [DOMAIN list -> DOMAIN list] :
                  \A i, j \in DOMAIN list : i # j => g[i] # g[j] } }

\* Variant: one shuffle of the whole list (handleShuffle of part_010).
shuffled_whole(list) == Orders(list)

\* [...shuffledPinned, ...shuffledUnpinned]: each group sorted with a random
\* comparator, which leaves it in some order.
shuffled(list) ==
    { p \o u : p \in Orders(SelectSeq(list, LAMBDA i : i.pinned)),
               u \in Orders(SelectSeq(list, LAMBDA i : ~i.pinned)) }

\* newItems.splice(from, 1) and newItems.splice(to, 0, movedItem), on
\* positions counted from 1.
moved(list, from, to) ==
    LET without == SubSeq(list, 1, from - 1) \o SubSeq(list, from + 1, Len(list))
    IN  SubSeq(without, 1, to - 1) \o <<list[from]>> \o SubSeq(without, to, Len(without))

\* updated.filter(i => i.pinned) followed by updated.filter(i => !i.pinned)
pinnedFirst(list) ==
    SelectSeq(list, LAMBDA i : i.pinned) \o SelectSeq(list, LAMBDA i : ~i.pinned)

\* A handler of App.jsx starts and calls packItemsTight(list, canvasWidth).
StartHandler(name, list) ==
    /\ pc = "app"
    /\ handler' = [name |-> name, from |-> "user", save |-> FALSE]
    /\ CallPackerApp(list)
    /\ UNCHANGED <<containerWidth, targetRowHeight, appItems, collageSets,
                   collageId, kv, inflight>>

InitItems ==
    /\ PackerIdle
    /\ pc = "app"
    /\ containerWidth = Num(6)
    /\ targetRowHeight = Num(5)
    /\ appItems = <<>>
    /\ collageSets = <<>>
    /\ collageId = "null"
    /\ kv = EmptyKV
    /\ inflight = <<>>
    /\ handler = NoHandler

\* handleFileSelect with one image file:
\* setItems(prev => packItemsTight([...prev, ...newItems], canvasWidth))
AddImage ==
    /\ Len(appItems) < MaxItems
    /\ \E shape \in AppShapes :
          LET id == CHOOSE n \in 1..MaxItems :
                      /\ n \notin IdsOf(appItems)
                      /\ \A m \in 1..(n - 1) : m \in IdsOf(appItems)
          IN  StartHandler("handleFileSelect", Append(appItems, NewImage(id, shape)))

\* deleteItem(id)
DeleteItem ==
    \E id \in IdsOf(appItems) :
        StartHandler("deleteItem", SelectSeq(appItems, LAMBDA i : i.id # id))

\* The long press started in handleItemTouchStart: the pin of the item is
\* toggled and the pinned items are put first.
TogglePin ==
    \E id \in IdsOf(appItems) :
        LET updated == [k \in DOMAIN appItems |->
                          IF appItems[k].id = id
                          THEN [appItems[k] EXCEPT !.pinned = ~appItems[k].pinned]
                          ELSE appItems[k]]
        IN  StartHandler("handleItemTouchStart", pinnedFirst(updated))

\* shuffleItems
ShuffleItems ==
    /\ Len(appItems) # 0
    /\ \E list \in shuffled(appItems) : StartHandler("shuffleItems", list)

\* handleItemDragEnd with dragItem.index = from - 1, dragOverIndex = to - 1
HandleItemDragEnd ==
    \E from, to \in DOMAIN appItems :
        /\ from # to
        /\ StartHandler("handleItemDragEnd", moved(appItems, from, to))

\* packItems
PackItems ==
    /\ appItems = appItems
    /\ StartHandler("packItems", appItems)

\* setItems receives what packItemsTight returned.
SetItemsReturn ==
    /\ pc = "App.done"
    /\ appItems' = packed
    /\ handler' = NoHandler
    /\ pc' = "app"
    /\ UNCHANGED <<itemList, containerWidth, targetRowHeight, packed, currentY,
                   rowItems, rowAspectSum, idx, rows, collageSets, collageId,
                   kv, inflight>>

NextItems ==
    \/ AddImage \/ DeleteItem \/ TogglePin \/ ShuffleItems \/ HandleItemDragEnd
    \/ PackItems \/ LoopStepApp \/ FlushApp \/ SetItemsReturn

SpecItems == InitItems /\ [][NextItems]_vars

\* The item lists of up to MaxItems images, pinned or not, in any order of
\* pinned and unpinned (handleItemDragEnd moves any item anywhere).
AppLists ==
    UNION { { [i \in 1..n |-> [NewImage(i, shape) EXCEPT !.pinned = pins[i]]] :
                pins \in [1..n -> BOOLEAN], shape \in AppShapes } :
            n \in 0..MaxItems }

\* The application with a list of items, the shuffle button the only one used.
InitShuffle ==
    /\ PackerIdle
    /\ pc = "app"
    /\ containerWidth \in {Num(6), NumDiv(Num(21), Num(2))}
    /\ targetRowHeight = Num(5)
    /\ appItems \in AppLists
    /\ collageSets = <<>>
    /\ collageId = "null"
    /\ kv = EmptyKV
    /\ inflight = <<>>
    /\ handler = NoHandler

NextShuffle == ShuffleItems \/ LoopStepApp \/ FlushApp \/ SetItemsReturn

SpecShuffle == InitShuffle /\ [][NextShuffle]_vars

\* Two lists hold the same items: the same ids, each once, with the same
\* pinned flag and ratio.
SameItems(a, b) ==
    /\ Len(a) = Len(b)
    /\ \A i \in DOMAIN a :
          /\ Cardinality({ j \in DOMAIN b : b[j].id = a[i].id }) = 1
          /\ \E j \in DOMAIN b :
                /\ b[j].id = a[i].id
                /\ b[j].pinned = a[i].pinned
                /\ b[j].aspectRatio = a[i].aspectRatio

\* shuffleItems hands its result to setItems.
ShuffleReturns == pc = "App.done" /\ handler.name = "shuffleItems"

\* C24: after shuffleItems the item list holds the same items as before, none
\* lost or duplicated, with every pinned item before every unpinned item.
C24_ShuffleRespectsPinned ==
    [][ ShuffleReturns => (SameItems(appItems, appItems') /\ PinnedFirst(appItems')) ]_vars

\* A shuffle is about to return a list of pinned and unpinned items in which
\* an item has changed its place.
C24_Witness ==
    /\ ShuffleReturns
    /\ Mixed(packed)
    /\ \E i \in DOMAIN packed : packed[i].id # appItems[i].id

\* C28: whenever no handler is running, every pinned item of the items list
\* precedes every unpinned item, whatever items were added, deleted, pinned,
\* shuffled, dragged or repacked before.
C28_PinnedFirstInvariant ==
    (pc = "app" /\ handler = NoHandler) => PinnedFirst(appItems)

\* ------------------------------------------- the threshold rule, as coded

\* The proper prefixes of completed row k: its first j items, j < n.
ProperPrefixes(k) == rows[k].first .. (rows[k].first + rows[k].n - 2)

\* C25: every completed row is the shortest prefix of the remaining items
\* whose justified height is at most the target: containerWidth / S <= target
\* for the row, containerWidth / S > target for each of its proper prefixes
\* and for the difference S - a_last, and the item that brings the
\* height to or below the target is placed in the row it closes.
C25_ShortestPrefixAtOrBelowTarget ==
    /\ [](\A k \in CompletedRows :
             /\ NumLe(JustifiedHeight(rows[k].aspectSum), targetRowHeight)
             /\ \A j \in ProperPrefixes(k) :
                    NumLt(targetRowHeight,
                          JustifiedHeight(SumRatios(rows[k].first, j)))
             /\ rows[k].n > 1 =>
                    NumLt(targetRowHeight,
                          JustifiedHeight(NumAbsDiff(rows[k].aspectSum,
                              aspectRatioOf(SourceOf(
                                  packed[rows[k].first + rows[k].n - 1]))))))
    /\ [][ (AtItem /\ NumLe(TentativeHeight, targetRowHeight))
           => (EmitsWithItem /\ ~rows'[Len(rows')].isLastRow) ]_vars

\* The pack returned with a completed row of several items.
C25_Witness ==
    /\ Done
    /\ \E k \in CompletedRows : rows[k].n >= 2

\* ------------------------------------------------------- the trailing row

\* window.innerWidth / canvasScale for a window 231 pixels wide at scale 1.1:
\* 209.99999999999997, the double just below 210.
ScaledWidth == NumDiv(Num(231), NumDiv(Num(11), Num(10)))

\* packItemsTight of utils/packing.js called with a container width that is
\* a whole number or such a quotient, and baseSize 5 or 100.
InitTrailing ==
    /\ itemList \in UNION { ItemLists(n) : n \in 0..MaxItems }
    /\ containerWidth \in {Num(6), ScaledWidth}
    /\ targetRowHeight \in {Num(5), Num(100)}
    /\ packed = <<>>
    /\ currentY = 0
    /\ rowItems = <<>>
    /\ rowAspectSum = Zero
    /\ idx = 1
    /\ pc = "loop"
    /\ rows = <<>>
    /\ AppIdle

SpecTrailing == InitTrailing /\ [][Next]_vars

\* C26: the trailing row has a justified height containerWidth / S strictly
\* above targetRowHeight, its items are placed with a height of at most
\* 1.5 x targetRowHeight, and their placed widths sum to at most
\* containerWidth.
C26_TrailingRowFits ==
    \A k \in LastRows :
        /\ NumLt(targetRowHeight, JustifiedHeight(rows[k].aspectSum))
        /\ \A i \in RowIndices(k) :
               NumLe(Num(packed[i].height), NumMul(targetRowHeight, OneAndAHalf))
        /\ NumLe(Num(RowWidth(k)), containerWidth)

\* ------------------------------------ repacking items with a stored ratio

\* Image items as handleFiles makes them: aspect_ratio is naturalWidth /
\* naturalHeight, width is baseSize * aspectRatio, height is baseSize.
StoredShapes ==
    { shape \in ItemShapes : shape.aspect_ratio # Absent }
        \cup { [aspect_ratio |-> NumDiv(Num(3), Num(2)), width |-> 150, height |-> 100] }

StoredLists(n) ==
    { [i \in 1..n |-> MkItem(i, f[i], FALSE)] : f \in [1..n -> StoredShapes] }

\* One collage "a" is open; every item of it carries its aspect_ratio.
InitStored ==
    /\ PackerIdle
    /\ pc = "app"
    /\ containerWidth \in WidthSet
    /\ targetRowHeight \in TargetSet
    /\ appItems \in UNION { StoredLists(n) : n \in 0..MaxItems }
    /\ collageSets = <<SetEntry("a")>>
    /\ collageId = "a"
    /\ kv = [collage_list |-> <<SetEntry("a")>>, collage |-> [id \in {"a"} |-> appItems]]
    /\ inflight = <<>>
    /\ handler = NoHandler

\* The pack button pressed again and again, window and baseSize unchanged.
NextStored == PackButton \/ LoopStep \/ Flush \/ HandlePackReturn

SpecStored == InitStored /\ [][NextStored]_vars

\* packItemsTight has returned to a handlePack that was started on the items
\* an earlier handlePack had set (the save of that handlePack is on its way).
RepackReturned ==
    /\ pc = "done"
    /\ handler.name = "handlePack"
    /\ inflight # <<>>

\* C27: when every item carries a positive aspect_ratio, packing the items
\* that an earlier pack with the same containerWidth and targetRowHeight
\* returned gives every item the x, y, width and height it already had,
\* however often handlePack is repeated.
C27_RepackFixedPoint ==
    RepackReturned =>
        /\ \A i \in DOMAIN appItems : appItems[i].aspect_ratio # Zero
        /\ Len(packed) = Len(appItems)
        /\ \A i \in DOMAIN packed :
              Geometry(i) = <<appItems[i].x, appItems[i].y,
                              appItems[i].width, appItems[i].height>>

\* A repack of several items has returned, one of which has a floored width
\* and height whose quotient is not its aspect_ratio.
C27_Witness ==
    /\ RepackReturned
    /\ Len(appItems) >= 2
    /\ \E i \in DOMAIN appItems :
          /\ appItems[i].height # 0
          /\ NumDiv(Num(appItems[i].width), Num(appItems[i].height))
                 # appItems[i].aspect_ratio

\* ------------------------------------------ the collage sets and the server

\* The ids of collages (crypto.randomUUID() in the application).
CollageIds == {"a", "b", "c"}

\* A stored collage:{id} record: { id, name, items }.
FullData(id, name, body) == [id |-> id, name |-> name, items |-> body]

\* The sets named by ids, in that order, and the store that holds them.
SetsOf(ids) == [i \in DOMAIN ids |-> SetEntry(ids[i])]

StoreOf(ids) ==
    [collage_list |-> SetsOf(ids),
     collage |-> [id \in {ids[i] : i \in DOMAIN ids} |-> FullData(id, id, <<>>)]]

\* seq without its i-th element.
Remove(seq, i) == SubSeq(seq, 1, i - 1) \o SubSeq(seq, i + 1, Len(seq))

\* list.filter(c => c.id !== id)
without(list, id) == SelectSeq(list, LAMBDA c : c.id # id)

\* A request of apiClient.collages.delete(id) on its way: DELETE
\* /api/collages/{id}; oldSets and oldId are the constants of the
\* deleteCollage call that waits for it, list is the handler's local `list`.
DeleteRequest(id, oldSets, oldId) ==
    [method |-> "DELETE", id |-> id, at |-> "get_list", list |-> <<>>,
     oldSets |-> oldSets, oldId |-> oldId]

\* deleteCollage(id), up to the await: refused for the last set, otherwise
\* the set leaves collageSets, the first remaining set becomes current if the
\* deleted one was, and the request is sent. (confirm() is answered with OK.)
deleteCollage ==
    /\ pc = "app"
    /\ Len(inflight) < MaxRequests
    /\ \E i \in DOMAIN collageSets :
          LET id == collageSets[i].id
              remaining == without(collageSets, id)
          IN  IF Len(collageSets) <= 1
              THEN UNCHANGED <<collageSets, collageId, inflight>>
              ELSE /\ collageSets' = remaining
                   /\ collageId' = IF collageId = id THEN remaining[1].id ELSE collageId
                   /\ inflight' = Append(inflight,
                                         DeleteRequest(id, collageSets, collageId))
    /\ UNCHANGED <<itemList, containerWidth, targetRowHeight, packed, currentY,
                   rowItems, rowAspectSum, idx, pc, rows, appItems, kv, handler>>

\* DELETE: let list = await env.COLLAGE_KV.get('collage_list') || [];
\* list = list.filter(c => c.id !== id)
ServerDeleteGetList ==
    /\ \E i \in DOMAIN inflight :
          /\ inflight[i].method = "DELETE"
          /\ inflight[i].at = "get_list"
          /\ inflight' = [inflight EXCEPT
                 ![i].list = without(kv.collage_list, inflight[i].id),
                 ![i].at = "put_list"]
    /\ UNCHANGED <<itemList, containerWidth, targetRowHeight, packed, currentY,
                   rowItems, rowAspectSum, idx, pc, rows, appItems, collageSets,
                   collageId, kv, handler>>

\* DELETE: await env.COLLAGE_KV.put('collage_list', JSON.stringify(list))
ServerDeletePutList ==
    /\ \E i \in DOMAIN inflight :
          /\ inflight[i].method = "DELETE"
          /\ inflight[i].at = "put_list"
          /\ kv' = [kv EXCEPT !.collage_list = inflight[i].list]
          /\ inflight' = [inflight EXCEPT ![i].at = "delete_record"]
    /\ UNCHANGED <<itemList, containerWidth, targetRowHeight, packed, currentY,
                   rowItems, rowAspectSum, idx, pc, rows, appItems, collageSets,
                   collageId, handler>>

\* DELETE: await env.COLLAGE_KV.delete(`collage:${id}`);
\* return new Response('Deleted', { status: 200 })
ServerDeleteRecord ==
    /\ \E i \in DOMAIN inflight :
          /\ inflight[i].method = "DELETE"
          /\ inflight[i].at = "delete_record"
          /\ kv' = [kv EXCEPT !.collage =
                       [id \in DOMAIN kv.collage \ {inflight[i].id} |-> kv.collage[id]]]
          /\ inflight' = [inflight EXCEPT ![i].at = "response_ok"]
    /\ UNCHANGED <<itemList, containerWidth, targetRowHeight, packed, currentY,
                   rowItems, rowAspectSum, idx, pc, rows, appItems, collageSets,
                   collageId, handler>>

\* An await of the DELETE handler throws (the KV operation fails): the
\* platform answers the request with a status that is not OK.
ServerDeleteFails ==
    /\ \E i \in DOMAIN inflight :
          /\ inflight[i].method = "DELETE"
          /\ inflight[i].at \in {"get_list", "put_list", "delete_record"}
          /\ inflight' = [inflight EXCEPT ![i].at = "response_not_ok"]
    /\ UNCHANGED <<itemList, containerWidth, targetRowHeight, packed, currentY,
                   rowItems, rowAspectSum, idx, pc, rows, appItems, collageSets,
                   collageId, kv, handler>>

\* apiClient.collages.delete: return res.ok
collagesDelete(at) == at = "response_ok"

\* const { error } = result: the property `error` of what the call returned;
\* a boolean has none.
errorOf(result) ==
    IF result \in BOOLEAN THEN "undefined" ELSE result.error

\* if (error): undefined and null are falsy.
truthy(value) == value \notin {"undefined", "null"}

\* The response to request i has arrived and its deleteCollage runs on.
DeleteAnswered(i) ==
    /\ i \in DOMAIN inflight
    /\ inflight[i].method = "DELETE"
    /\ inflight[i].at \in {"response_ok", "response_not_ok"}

\* deleteCollage after the await: const { error } = ...; if (error) {
\* alert(...); setCollageSets(oldSets); setCollageId(oldId) }
deleteCollageResumes ==
    /\ \E i \in DOMAIN inflight :
          /\ DeleteAnswered(i)
          /\ LET error == errorOf(collagesDelete(inflight[i].at))
             IN  IF truthy(error)
                 THEN /\ collageSets' = inflight[i].oldSets
                      /\ collageId' = inflight[i].oldId
                 ELSE UNCHANGED <<collageSets, collageId>>
          /\ inflight' = Remove(inflight, i)
    /\ UNCHANGED <<itemList, containerWidth, targetRowHeight, packed, currentY,
                   rowItems, rowAspectSum, idx, pc, rows, appItems, kv, handler>>

\* The application with two or three collage sets, all stored on the server.
InitDelete ==
    /\ PackerIdle
    /\ pc = "app"
    /\ containerWidth = Num(6)
    /\ targetRowHeight = Num(5)
    /\ appItems = <<>>
    /\ \E ids \in {<<"a", "b">>, <<"a", "b", "c">>} :
          /\ collageSets = SetsOf(ids)
          /\ collageId \in {ids[i] : i \in DOMAIN ids}
          /\ kv = StoreOf(ids)
    /\ inflight = <<>>
    /\ handler = NoHandler

NextDelete ==
    \/ deleteCollage
    \/ ServerDeleteGetList
    \/ ServerDeletePutList
    \/ ServerDeleteRecord
    \/ ServerDeleteFails
    \/ deleteCollageResumes

SpecDelete == InitDelete /\ [][NextDelete]_vars

\* C29: when the response to a delete is not OK, the deleteCollage that sent
\* it puts collageSets and collageId back to their values before the call;
\* and no deleteCollage leaves collageSets empty.
C29_FailedDeleteRolledBack ==
    /\ [][ \A i \in DOMAIN inflight :
              (DeleteAnswered(i) /\ inflight[i].at = "response_not_ok"
                  /\ inflight' = Remove(inflight, i))
              => (collageSets' = inflight[i].oldSets
                  /\ collageId' = inflight[i].oldId) ]_vars
    /\ [][ collageSets # <<>> => collageSets' # <<>> ]_vars

\* ----------------------------------------------- creating collages (POST)

\* The ids a list of entries names.
ListedIds(list) == { list[i].id : i \in DOMAIN list }

\* The ids in use: on the client, in a request, on the server.
UsedIds ==
    ListedIds(collageSets) \cup ListedIds(inflight)
        \cup ListedIds(kv.collage_list) \cup DOMAIN kv.collage

\* createCollage(name): a fresh id, the new set appended and made current,
\* apiClient.collages.save(newId, name, []) sent.
createCollage ==
    /\ pc = "app"
    /\ Len(inflight) < MaxRequests
    /\ \E newId \in CollageIds \ UsedIds :
          /\ collageSets' = Append(collageSets, SetEntry(newId))
          /\ collageId' = newId
          /\ inflight' = Append(inflight, SaveRequest(newId, newId, <<>>))
    /\ UNCHANGED <<itemList, containerWidth, targetRowHeight, packed, currentY,
                   rowItems, rowAspectSum, idx, pc, rows, appItems, kv, handler>>

\* const existingIdx = list.findIndex(c => c.id === id); the entry renamed
\* if it exists, list.push({ id, name, ... }) otherwise.
upserted(list, id, name) ==
    IF id \in ListedIds(list)
    THEN [i \in DOMAIN list |->
             IF list[i].id = id THEN [list[i] EXCEPT !.name = name] ELSE list[i]]
    ELSE Append(list, [id |-> id, name |-> name])

\* POST: let list = await env.COLLAGE_KV.get('collage_list') || []; then the
\* entry of id is updated or pushed, in the handler's own copy.
ServerPostGetList ==
    /\ \E i \in DOMAIN inflight :
          /\ inflight[i].method = "POST"
          /\ inflight[i].at = "get_list"
          /\ inflight' = [inflight EXCEPT
                 ![i].list = upserted(kv.collage_list, inflight[i].id, inflight[i].name),
                 ![i].at = "put_list"]
    /\ UNCHANGED <<itemList, containerWidth, targetRowHeight, packed, currentY,
                   rowItems, rowAspectSum, idx, pc, rows, appItems, collageSets,
                   collageId, kv, handler>>

\* POST: await env.COLLAGE_KV.put('collage_list', JSON.stringify(list))
ServerPostPutList ==
    /\ \E i \in DOMAIN inflight :
          /\ inflight[i].method = "POST"
          /\ inflight[i].at = "put_list"
          /\ kv' = [kv EXCEPT !.collage_list = inflight[i].list]
          /\ inflight' = [inflight EXCEPT ![i].at = "get_collage"]
    /\ UNCHANGED <<itemList, containerWidth, targetRowHeight, packed, currentY,
                   rowItems, rowAspectSum, idx, pc, rows, appItems, collageSets,
                   collageId, handler>>

\* POST: let fullData = await env.COLLAGE_KV.get(`collage:${id}`) ||
\* { id, name: body.name, items: [] }; name and items taken from the body.
\* The handler's fullData is kept in the field `list` of the request.
ServerPostGetCollage ==
    /\ \E i \in DOMAIN inflight :
          /\ inflight[i].method = "POST"
          /\ inflight[i].at = "get_collage"
          /\ inflight' = [inflight EXCEPT
                 ![i].list =
                     [(IF inflight[i].id \in DOMAIN kv.collage
                       THEN kv.collage[inflight[i].id]
                       ELSE FullData(inflight[i].id, inflight[i].name, <<>>))
                      EXCEPT !.name = inflight[i].name, !.items = inflight[i].items],
                 ![i].at = "put_collage"]
    /\ UNCHANGED <<itemList, containerWidth, targetRowHeight, packed, currentY,
                   rowItems, rowAspectSum, idx, pc, rows, appItems, collageSets,
                   collageId, kv, handler>>

\* POST: await env.COLLAGE_KV.put(`collage:${id}`, JSON.stringify(fullData));
\* return new Response(JSON.stringify(fullData))
ServerPostPutCollage ==
    /\ \E i \in DOMAIN inflight :
          /\ inflight[i].method = "POST"
          /\ inflight[i].at = "put_collage"
          /\ kv' = [kv EXCEPT !.collage =
                       [id \in DOMAIN kv.collage \cup {inflight[i].id} |->
                           IF id = inflight[i].id THEN inflight[i].list
                           ELSE kv.collage[id]]]
          /\ inflight' = [inflight EXCEPT ![i].at = "response_ok"]
    /\ UNCHANGED <<itemList, containerWidth, targetRowHeight, packed, currentY,
                   rowItems, rowAspectSum, idx, pc, rows, appItems, collageSets,
                   collageId, handler>>

\* createCollage after the await: error is null for an OK response, nothing
\* more is done.
createCollageResumes ==
    /\ \E i \in DOMAIN inflight :
          /\ inflight[i].method = "POST"
          /\ inflight[i].at = "response_ok"
          /\ inflight' = Remove(inflight, i)
    /\ UNCHANGED <<itemList, containerWidth, targetRowHeight, packed, currentY,
                   rowItems, rowAspectSum, idx, pc, rows, appItems, collageSets,
                   collageId, kv, handler>>

\* The application with no collage yet or with the collage "a", and the
\* server storing the same.
InitCreate ==
    /\ PackerIdle
    /\ pc = "app"
    /\ containerWidth = Num(6)
    /\ targetRowHeight = Num(5)
    /\ appItems = <<>>
    /\ \E ids \in {<<>>, <<"a">>} :
          /\ collageSets = SetsOf(ids)
          /\ collageId = IF ids = <<>> THEN "null" ELSE ids[1]
          /\ kv = StoreOf(ids)
    /\ inflight = <<>>
    /\ handler = NoHandler

NextCreate ==
    \/ createCollage
    \/ ServerPostGetList
    \/ ServerPostPutList
    \/ ServerPostGetCollage
    \/ ServerPostPutCollage
    \/ createCollageResumes

SpecCreate == InitCreate /\ [][NextCreate]_vars

\* C30: once every POST that creates a collage has completed, collage_list
\* names every collage created, and every id with a stored collage:{id}
\* record is named in collage_list, however the requests were interleaved.
C30_NoLostUpdate ==
    inflight = <<>> =>
        /\ ListedIds(collageSets) \subseteq ListedIds(kv.collage_list)
        /\ DOMAIN kv.collage \subseteq ListedIds(kv.collage_list)

====
